---- MODULE Spec2Model ----
(***************************************************************************)
(* The friends API of src/app.py (send / accept / decline / remove, search *)
(* and the list of pending requests) as a state machine over the Firestore *)
(* collections it reads and writes.  Every Firestore call of a handler is  *)
(* one step of the worker that runs the handler, so handlers of different  *)
(* workers interleave between their store calls.  A batch commit is one    *)
(* step: it applies all of its writes or, when the store call raises, none *)
(* of them.                                                                *)
(*                                                                         *)
(* Beside the friends API: joining a group by invite code, the search      *)
(* index written by update_user_search_index, and the browser session as   *)
(* login_required, verify_firebase_token and logout read and write it.     *)
(***************************************************************************)
EXTENDS Integers, Sequences, FiniteSets, TLC

\* Cap on the number of documents created in friend_requests.
MaxRequests == 2

\* Authenticated users (each has a profile document) and one id that names
\* no profile document.
Users == {"u1", "u2"}
Unknown == "u0"
Ids == Users \cup {Unknown}

\* Request handlers that can be in flight at the same time.
Workers == {"w1", "w2"}

\* A document snapshot whose .exists is False.
NoDoc == [exists |-> FALSE]

\* The email claim of the verified token of user u.
TokenEmail(u) == u \o "@x"

\* session['user'] as login_required creates it from the decoded token.
SessionUser(u) == [uid |-> u, email |-> TokenEmail(u)]

VARIABLES
    users,            \* users/{id}: the profile document, or NoDoc
    friend_requests,  \* friend_requests/{id}: sequence, the id is the index
    friends,          \* users/{owner}/friends/{key}: <<owner, key>> -> doc
    workers,          \* per worker: the handler it runs and its locals
    groups,           \* groups/{id}: invite code, members, memberCount
    join_calls,       \* per worker: the join call it runs and its locals
    user_search,      \* user_search/{id}: the search index entry, or NoDoc
    index_call,       \* the call of update_user_search_index and its state
    session,          \* the session cookie the browser holds
    auth_call         \* the server's mode and the requests behind login_required

\* The collections of the friends views and the handlers that run them.
friend_vars == <<users, friend_requests, friends, workers>>

\* The groups and the join calls.
group_vars == <<groups, join_calls>>

\* The search index and the call that writes it.
index_vars == <<user_search, index_call>>

\* The session and the request that login_required handles.
auth_vars == <<session, auth_call>>

\* What the friends views neither read nor write.
outside_friends == <<group_vars, index_vars, auth_vars>>

vars == <<users, friend_requests, friends, workers, groups, join_calls,
          user_search, index_call, session, auth_call>>

\* str(e) of the exception a store call raises.
StoreError == "503 The service is currently unavailable."

\* A worker that runs no handler.  resp is the response of the handler it
\* ran last, details the error text the body of that response carries
\* besides its fixed message, result the list it carries.
Idle == [pc |-> "idle", current_user_id |-> Unknown, arg |-> Unknown,
         friendship1 |-> NoDoc, request_data |-> NoDoc,
         current_user_data |-> NoDoc, search_results |-> <<>>,
         resp |-> "none", details |-> "", result |-> <<>>]

Free(w) == workers[w].pc = "idle"

\* The handler of worker w returns the response kind; its locals are gone.
Returns(w, kind) ==
    workers' = [workers EXCEPT ![w] = [Idle EXCEPT !.resp = kind]]

\* The handler of worker w returns the response kind with str(e) in its body.
ReturnsError(w, kind, e) ==
    workers' = [workers EXCEPT ![w] = [Idle EXCEPT !.resp = kind,
                                                   !.details = e]]

\* The handler of worker w returns the response kind with a list in its body.
ReturnsList(w, kind, list) ==
    workers' = [workers EXCEPT ![w] = [Idle EXCEPT !.resp = kind,
                                                   !.result = list]]

\* The handler of worker w goes on with the locals next.
GoesOn(w, next) == workers' = [workers EXCEPT ![w] = next]

\* A request for a view arrives at worker w: login_required has put the
\* acting user into the session, the view has read its argument.
Begins(w, entry, uid, arg) ==
    /\ Free(w)
    /\ GoesOn(w, [Idle EXCEPT !.pc = entry, !.current_user_id = uid,
                              !.arg = arg])

(***************************************************************************)
(* Text.  A string that a handler takes apart (a search query, an invite   *)
(* code, a searched field) is the sequence of its characters.              *)
(***************************************************************************)

\* str.lower() of one character.
LowerChar(c) ==
    CASE c = "A" -> "a" [] c = "B" -> "b" [] c = "C" -> "c" [] c = "D" -> "d"
      [] c = "U" -> "u" [] c = "X" -> "x" [] c = "Z" -> "z" [] OTHER -> c

\* toUpperCase() of one character.
UpperChar(c) ==
    CASE c = "a" -> "A" [] c = "b" -> "B" [] c = "c" -> "C" [] c = "d" -> "D"
      [] c = "u" -> "U" [] c = "x" -> "X" [] c = "z" -> "Z" [] OTHER -> c

\* str.lower()
Lower(s) == [i \in 1..Len(s) |-> LowerChar(s[i])]

\* toUpperCase()
Upper(s) == [i \in 1..Len(s) |-> UpperChar(s[i])]

RECURSIVE StripLeft(_)
StripLeft(s) ==
    IF s # <<>> /\ Head(s) = " " THEN StripLeft(Tail(s)) ELSE s

RECURSIVE StripRight(_)
StripRight(s) ==
    IF s # <<>> /\ s[Len(s)] = " "
    THEN StripRight(SubSeq(s, 1, Len(s) - 1))
    ELSE s

\* str.strip(): the white space at both ends removed.
Strip(s) == StripRight(StripLeft(s))

\* text.find(query) >= 0
Contains(text, query) ==
    \E i \in 0..(Len(text) - Len(query)) :
        SubSeq(text, i + 1, i + Len(query)) = query

\* The characters of the email of user u.
EmailChars(u) ==
    IF u = "u1" THEN <<"u", "1", "@", "x">> ELSE <<"u", "2", "@", "x">>

(***************************************************************************)
(* Groups (Membership Admission)                                           *)
(***************************************************************************)

\* The length of an invite code.
CodeLength == 6

GroupIds == {1, 2}

\* The group_id of a join call that has found no group.
NoGroup == 0

\* The user who created the groups; their first member.
Owner == "owner"

\* The inviteCode of each group.
InviteCode(g) ==
    IF g = 1 THEN <<"A", "B", "1", "2", "C", "D">>
             ELSE <<"C", "D", "1", "2", "A", "B">>

\* An entry of the members map of a group.
MemberRecord(role) == [exists |-> TRUE, status |-> "active", role |-> role]

\* The groups as their creation leaves them: the creator is the only member.
GroupsAtStart ==
    [g \in GroupIds |->
        [inviteCode |-> InviteCode(g),
         members |-> [u \in Users \cup {Owner} |->
                        IF u = Owner THEN MemberRecord("admin") ELSE NoDoc],
         memberCount |-> 1,
         messages |-> <<>>]]

\* A worker that runs no join call.
JoinIdle == [pc |-> "idle", user_id |-> Unknown, code |-> <<>>,
             group_id |-> NoGroup, resp |-> "none", alreadyMember |-> FALSE]

(***************************************************************************)
(* The session and the search index                                        *)
(***************************************************************************)

\* No id token: no Authorization header, no cookie, no session['id_token'].
NoToken == "none"

\* The id tokens a browser presents: one of each user and one that
\* auth.verify_id_token() rejects.
Tokens == {"t1", "t2", "bad"}

\* The session of a browser that has sent no request yet.
NewSession == [id_token |-> NoToken, user |-> NoDoc]

\* The requests of one browser that can be in flight at the same time.
Requests == {"r1", "r2"}

\* decoded_token.get('uid') of a token whose payload has no claim uid.
NoUid == "None"

\* A request slot no request has used yet.  session is the session object
\* of the request: Flask loads it from the session cookie the request came
\* with and sends it back with the response when it was modified.
\* source: where login_required found the token.
NoRequest == [pc |-> "idle", session |-> [id_token |-> NoToken, user |-> NoDoc],
              source |-> "none", id_token |-> NoToken, verified |-> Unknown,
              acting |-> Unknown, view_runs |-> 0, resp |-> "none"]

\* No request has gone through login_required yet; the server runs in
\* production mode.
NoRequests == [development |-> FALSE, requests |-> [r \in Requests |-> NoRequest]]

\* The profile fields update_user_search_index() reads, as characters.
NoUserData == [name |-> <<>>, email |-> <<>>, username |-> <<>>]

\* No call of update_user_search_index() has been made yet.
NoIndexCall == [pc |-> "idle", user_id |-> Unknown, user_data |-> NoUserData]

RequestIds == 1..MaxRequests

\* db.collection('friend_requests').document(request_id).get()
RequestDoc(request_id) ==
    IF request_id \in 1..Len(friend_requests)
    THEN friend_requests[request_id]
    ELSE NoDoc

\* .where('fromUserId','==',a).where('toUserId','==',b)
\* .where('status','==','pending').get()
PendingRequests(from_id, to_id) ==
    {i \in 1..Len(friend_requests) :
        /\ friend_requests[i].fromUserId = from_id
        /\ friend_requests[i].toUserId = to_id
        /\ friend_requests[i].status = "pending"}

\* Sends that have begun and have not yet returned.
SendsInFlight ==
    {w \in Workers : workers[w].pc \in
        {"send_existing", "send_friendship1", "send_friendship2",
         "send_to_user", "send_set"}}

Init ==
    /\ users = [u \in Ids |->
                  IF u \in Users
                  THEN [exists |-> TRUE, email |-> TokenEmail(u)]
                  ELSE NoDoc]
    /\ friend_requests = <<>>
    /\ friends = [p \in Ids \X Ids |-> NoDoc]
    /\ workers = [w \in Workers |-> Idle]
    /\ groups = GroupsAtStart
    /\ join_calls = [w \in Workers |-> JoinIdle]
    /\ user_search = [u \in Users |-> NoDoc]
    /\ index_call = NoIndexCall
    /\ session = NewSession
    /\ auth_call = NoRequests

(***************************************************************************)
(* send_friend_request                                                     *)
(***************************************************************************)

\* The value of data.get('toUserId') when the body carries none.
MissingToUserId == ""

\* The duplicate query with fromUserId and toUserId swapped.
existing_requests_swapped(current_user_id, to_user_id) ==
    PendingRequests(to_user_id, current_user_id)

\* "Check if request already exists": the pending requests of the ordered
\* pair (current_user_id, to_user_id).
existing_requests(current_user_id, to_user_id) ==
    PendingRequests(current_user_id, to_user_id)

\* "Only consider them friends if both documents exist and the emails
\* match": friendship1 is users/{current}/friends/{to}, friendship2 is
\* users/{to}/friends/{current}.
is_friends(friendship1, friendship2, current_user) ==
    /\ friendship1.exists
    /\ friendship2.exists
    /\ friendship1.email = current_user.email
    /\ friendship2.userId = current_user.uid

\* The document request_ref.set() writes (the fields later code reads).
request_data(current_user, to_user_id) ==
    [exists |-> TRUE,
     fromUserId |-> current_user.uid,
     fromUserEmail |-> current_user.email,
     toUserId |-> to_user_id,
     status |-> "pending"]

\* The view is entered; a body without toUserId is answered at once.  The
\* guard on the length keeps friend_requests within MaxRequests.
send_friend_request(w, uid, to_user_id) ==
    /\ \/ /\ to_user_id = MissingToUserId
          /\ Free(w)
          /\ Returns(w, "MissingToUserId")
       \/ /\ to_user_id # MissingToUserId
          /\ Len(friend_requests) + Cardinality(SendsInFlight) < MaxRequests
          /\ Begins(w, "send_existing", uid, to_user_id)
    /\ UNCHANGED <<outside_friends, users, friend_requests, friends>>

send_check_existing(w) ==
    /\ workers[w].pc = "send_existing"
    /\ LET me == workers[w] IN
       \/ Returns(w, "Failed")
       \/ /\ existing_requests(me.current_user_id, me.arg) # {}
          /\ Returns(w, "DuplicateRequest")
       \/ /\ existing_requests(me.current_user_id, me.arg) = {}
          /\ GoesOn(w, [me EXCEPT !.pc = "send_friendship1"])
    /\ UNCHANGED <<outside_friends, users, friend_requests, friends>>

send_get_friendship1(w) ==
    /\ workers[w].pc = "send_friendship1"
    /\ LET me == workers[w] IN
       \/ Returns(w, "Failed")
       \/ GoesOn(w, [me EXCEPT !.pc = "send_friendship2",
                               !.friendship1 =
                                   friends[<<me.current_user_id, me.arg>>]])
    /\ UNCHANGED <<outside_friends, users, friend_requests, friends>>

send_get_friendship2(w) ==
    /\ workers[w].pc = "send_friendship2"
    /\ LET me == workers[w]
           friendship2 == friends[<<me.arg, me.current_user_id>>]
           already == is_friends(me.friendship1, friendship2,
                                 SessionUser(me.current_user_id))
       IN \/ Returns(w, "Failed")
          \/ /\ already
             /\ Returns(w, "AlreadyFriends")
          \/ /\ ~already
             /\ GoesOn(w, [me EXCEPT !.pc = "send_to_user",
                                     !.friendship1 = NoDoc])
    /\ UNCHANGED <<outside_friends, users, friend_requests, friends>>

\* The read of the target's profile without the test of .exists.
send_get_to_user_unchecked(w) ==
    /\ workers[w].pc = "send_to_user"
    /\ \/ Returns(w, "Failed")
       \/ GoesOn(w, [workers[w] EXCEPT !.pc = "send_set"])
    /\ UNCHANGED <<outside_friends, users, friend_requests, friends>>

send_get_to_user(w) ==
    /\ workers[w].pc = "send_to_user"
    /\ LET me == workers[w]
           to_user_doc == users[me.arg]
       IN \/ Returns(w, "Failed")
          \/ /\ ~to_user_doc.exists
             /\ Returns(w, "UserNotFound")
          \/ /\ to_user_doc.exists
             /\ GoesOn(w, [me EXCEPT !.pc = "send_set"])
    /\ UNCHANGED <<outside_friends, users, friend_requests, friends>>

send_set(w) ==
    /\ workers[w].pc = "send_set"
    /\ LET me == workers[w] IN
       \/ /\ friend_requests' = Append(friend_requests,
                 request_data(SessionUser(me.current_user_id), me.arg))
          /\ Returns(w, "RequestSent")
       \/ /\ UNCHANGED friend_requests
          /\ Returns(w, "Failed")
    /\ UNCHANGED <<outside_friends, users, friends>>

(***************************************************************************)
(* accept_friend_request                                                   *)
(***************************************************************************)

\* The verification left out: every caller passes.
is_for_anyone(request, current_user_id) == TRUE

\* "Verify this request is for the current user"
is_for_current_user(request, current_user_id) ==
    request.toUserId = current_user_id

\* dict.get('email', '') of a profile snapshot ({} when it does not exist)
EmailOf(data) == IF data.exists THEN data.email ELSE ""

\* A document of users/{owner}/friends.
FriendRecord(user_id, email) ==
    [exists |-> TRUE, userId |-> user_id, email |-> email,
     status |-> "active"]

\* accept with the second batch.set() left out.
accept_one_side(fr, current_user_id, request, current_user_data) ==
    [fr EXCEPT ![<<current_user_id, request.fromUserId>>] =
         FriendRecord(request.fromUserId, request.fromUserEmail)]

\* accept with the recipient's profile copied into both records.
accept_same_profile(fr, current_user_id, request, current_user_data) ==
    [fr EXCEPT ![<<current_user_id, request.fromUserId>>] =
                   FriendRecord(current_user_id, EmailOf(current_user_data)),
               ![<<request.fromUserId, current_user_id>>] =
                   FriendRecord(current_user_id, EmailOf(current_user_data))]

\* accept with the status of the records copied from the request read.
accept_status_from_request(fr, current_user_id, request, current_user_data) ==
    [fr EXCEPT ![<<current_user_id, request.fromUserId>>] =
                   [FriendRecord(request.fromUserId, request.fromUserEmail)
                       EXCEPT !.status = request.status],
               ![<<request.fromUserId, current_user_id>>] =
                   [FriendRecord(current_user_id, EmailOf(current_user_data))
                       EXCEPT !.status = request.status]]

\* The two batch.set() of accept, applied in the order they were added:
\* first users/{current}/friends/{from}, then users/{from}/friends/{current}.
accept_friend_records(fr, current_user_id, request, current_user_data) ==
    LET first == [fr EXCEPT ![<<current_user_id, request.fromUserId>>] =
                      FriendRecord(request.fromUserId, request.fromUserEmail)]
    IN [first EXCEPT ![<<request.fromUserId, current_user_id>>] =
            FriendRecord(current_user_id, EmailOf(current_user_data))]

\* accept with the batch.update() of the request left out.
accept_request_status_left_out(reqs, request_id) == reqs

\* batch.update(request_ref, {'status': 'accepted', ...})
accept_request_status(reqs, request_id) ==
    [reqs EXCEPT ![request_id].status = "accepted"]

accept_friend_request(w, uid, request_id) ==
    /\ Begins(w, "accept_request", uid, request_id)
    /\ UNCHANGED <<outside_friends, users, friend_requests, friends>>

accept_get_request(w) ==
    /\ workers[w].pc = "accept_request"
    /\ LET me == workers[w]
           request_doc == RequestDoc(me.arg)
       IN \/ ReturnsError(w, "Failed", StoreError)
          \/ /\ ~request_doc.exists
             /\ Returns(w, "NotFound")
          \/ /\ request_doc.exists
             /\ ~is_for_current_user(request_doc, me.current_user_id)
             /\ Returns(w, "Forbidden")
          \/ /\ request_doc.exists
             /\ is_for_current_user(request_doc, me.current_user_id)
             /\ GoesOn(w, [me EXCEPT !.pc = "accept_user_doc",
                                     !.request_data = request_doc])
    /\ UNCHANGED <<outside_friends, users, friend_requests, friends>>

accept_get_user_doc(w) ==
    /\ workers[w].pc = "accept_user_doc"
    /\ LET me == workers[w] IN
       \/ ReturnsError(w, "Failed", StoreError)
       \/ GoesOn(w, [me EXCEPT !.pc = "accept_commit",
                               !.current_user_data =
                                   users[me.current_user_id]])
    /\ UNCHANGED <<outside_friends, users, friend_requests, friends>>

\* batch.commit(): all three writes, or none when the call raises.
accept_commit(w) ==
    /\ workers[w].pc = "accept_commit"
    /\ LET me == workers[w] IN
       \/ /\ friends' = accept_friend_records(friends, me.current_user_id,
                            me.request_data, me.current_user_data)
          /\ friend_requests' = accept_request_status(friend_requests, me.arg)
          /\ Returns(w, "Accepted")
       \/ /\ UNCHANGED <<friends, friend_requests>>
          /\ ReturnsError(w, "Failed", StoreError)
    /\ UNCHANGED <<outside_friends, users>>

(***************************************************************************)
(* decline_friend_request                                                  *)
(***************************************************************************)

\* decline with the status value of accept.
decline_request_status_accepted(reqs, request_id) ==
    [reqs EXCEPT ![request_id].status = "accepted"]

\* request_ref.update({'status': 'declined', ...})
decline_request_status(reqs, request_id) ==
    [reqs EXCEPT ![request_id].status = "declined"]

decline_friend_request(w, uid, request_id) ==
    /\ Begins(w, "decline_request", uid, request_id)
    /\ UNCHANGED <<outside_friends, users, friend_requests, friends>>

decline_get_request(w) ==
    /\ workers[w].pc = "decline_request"
    /\ LET me == workers[w]
           request_doc == RequestDoc(me.arg)
       IN \/ ReturnsError(w, "Failed", StoreError)
          \/ /\ ~request_doc.exists
             /\ Returns(w, "NotFound")
          \/ /\ request_doc.exists
             /\ ~is_for_current_user(request_doc, me.current_user_id)
             /\ Returns(w, "Forbidden")
          \/ /\ request_doc.exists
             /\ is_for_current_user(request_doc, me.current_user_id)
             /\ GoesOn(w, [me EXCEPT !.pc = "decline_update"])
    /\ UNCHANGED <<outside_friends, users, friend_requests, friends>>

decline_update(w) ==
    /\ workers[w].pc = "decline_update"
    /\ LET me == workers[w] IN
       \/ /\ friend_requests' = decline_request_status(friend_requests, me.arg)
          /\ Returns(w, "Declined")
       \/ /\ UNCHANGED friend_requests
          /\ ReturnsError(w, "Failed", StoreError)
    /\ UNCHANGED <<outside_friends, users, friends>>

(***************************************************************************)
(* remove_friend                                                           *)
(***************************************************************************)

\* remove with the second batch.delete() left out.
remove_friend_records_one_side(fr, current_user_id, friend_id) ==
    [fr EXCEPT ![<<current_user_id, friend_id>>] = NoDoc]

\* remove deleting every record under the current user.
remove_friend_records_of_user(fr, current_user_id, friend_id) ==
    [p \in DOMAIN fr |->
        IF p[1] = current_user_id \/ p = <<friend_id, current_user_id>>
        THEN NoDoc
        ELSE fr[p]]

\* The two batch.delete() of remove.
remove_friend_records(fr, current_user_id, friend_id) ==
    [fr EXCEPT ![<<current_user_id, friend_id>>] = NoDoc,
               ![<<friend_id, current_user_id>>] = NoDoc]

remove_friend(w, uid, friend_id) ==
    /\ Begins(w, "remove_commit", uid, friend_id)
    /\ UNCHANGED <<outside_friends, users, friend_requests, friends>>

\* batch.commit(): both deletes, or none when the call raises.
remove_commit(w) ==
    /\ workers[w].pc = "remove_commit"
    /\ LET me == workers[w] IN
       \/ /\ friends' = remove_friend_records(friends, me.current_user_id,
                                              me.arg)
          /\ Returns(w, "FriendRemoved")
       \/ /\ UNCHANGED friends
          /\ Returns(w, "Failed")
    /\ UNCHANGED <<outside_friends, users, friend_requests>>

(***************************************************************************)
(* search_users and get_friend_requests                                    *)
(***************************************************************************)

\* The values of the parameter q callers send.
Queries ==
    {<<"u">>, <<" ", "u", " ">>, <<"U", "1">>, <<"@", "x">>, <<"z", "z">>,
     <<>>}

\* The documents of the users collection in the order the store returns
\* them (by document id).
UserOrder == <<"u1", "u2">>

\* request.args.get('q', '').lower().strip()
search_query(q) == Strip(Lower(q))

\* The test of the length with only the empty query turned away.
too_short_if_empty(query) == Len(query) < 1

\* if len(query) < 2
too_short(query) == Len(query) < 2

\* "Simple search in name or email": the profile documents carry an email
\* and neither name nor username, whose default '' holds no query.
matches(user_id, query) ==
    /\ users[user_id].exists
    /\ Contains(Lower(EmailChars(user_id)), query)

\* The list search_results: the users of the scan that hold the query, in
\* the order of the scan.
search_results(query) ==
    SelectSeq(UserOrder, LAMBDA u : matches(u, query))

\* The found users the second loop makes store calls for: the current user
\* is skipped before any call.
to_process(found, current_user_id) ==
    SelectSeq(found, LAMBDA u : u # current_user_id)

search_users(w, uid, q) ==
    /\ Begins(w, "search_query", uid, q)
    /\ UNCHANGED <<outside_friends, users, friend_requests, friends>>

search_check_query(w) ==
    /\ workers[w].pc = "search_query"
    /\ LET me == workers[w]
           query == search_query(me.arg)
       IN IF too_short(query)
          THEN ReturnsList(w, "Users", <<>>)
          ELSE GoesOn(w, [me EXCEPT !.pc = "search_scan", !.arg = query])
    /\ UNCHANGED <<outside_friends, users, friend_requests, friends>>

\* The scan with the index entry of the searching user written on the way.
search_scan_reindexing(w) ==
    /\ workers[w].pc = "search_scan"
    /\ LET me == workers[w]
           found == to_process(search_results(me.arg), me.current_user_id)
       IN /\ IF found = <<>>
             THEN ReturnsList(w, "Users", <<>>)
             ELSE GoesOn(w, [me EXCEPT !.pc = "search_friendship",
                                       !.search_results = found])
          /\ user_search' = [user_search EXCEPT ![me.current_user_id] =
                                [exists |-> TRUE,
                                 userId |-> me.current_user_id,
                                 searchTerms |-> {me.arg}]]
    /\ UNCHANGED <<group_vars, auth_vars, index_call, users,
                   friend_requests, friends>>

\* db.collection('users').limit(50).get() and the first loop over its
\* documents.  The call raising ends the search with str(e) in the error.
\* With no user left to process the response follows without a store call.
search_scan(w) ==
    /\ workers[w].pc = "search_scan"
    /\ LET me == workers[w]
           found == to_process(search_results(me.arg), me.current_user_id)
       IN \/ ReturnsError(w, "Failed", StoreError)
          \/ IF found = <<>>
             THEN ReturnsList(w, "Users", <<>>)
             ELSE GoesOn(w, [me EXCEPT !.pc = "search_friendship",
                                       !.search_results = found])
    /\ UNCHANGED <<outside_friends, users, friend_requests, friends>>

\* The found user the loop is at: one entry is appended per user.
search_user(me) == me.search_results[Len(me.result) + 1]

\* The friendship read for the found user the loop is at; a read that
\* raises is caught where it is made and leaves isFriend False.
search_get_friendship(w) ==
    /\ workers[w].pc = "search_friendship"
    /\ LET me == workers[w]
           friendship == friends[<<me.current_user_id, search_user(me)>>]
       IN \E is_friend \in {friendship.exists, FALSE} :
            GoesOn(w, [me EXCEPT !.pc = "search_pending",
                                 !.friendship1 = [exists |-> is_friend]])
    /\ UNCHANGED <<outside_friends, users, friend_requests, friends>>

\* The pending query for the same user; a query that raises is caught where
\* it is made and leaves requestPending False.  The entry is appended and
\* the loop goes to the next found user, or the response is returned.
search_get_pending(w) ==
    /\ workers[w].pc = "search_pending"
    /\ LET me == workers[w]
           user_id == search_user(me)
           pending_requests == PendingRequests(me.current_user_id, user_id)
       IN \E request_pending \in {pending_requests # {}, FALSE} :
            LET user_data == [userId |-> user_id,
                              isFriend |-> me.friendship1.exists,
                              requestPending |-> request_pending]
                listed == Append(me.result, user_data)
            IN IF Len(listed) < Len(me.search_results)
               THEN GoesOn(w, [me EXCEPT !.pc = "search_friendship",
                                         !.friendship1 = NoDoc,
                                         !.result = listed])
               ELSE ReturnsList(w, "Users", listed)
    /\ UNCHANGED <<outside_friends, users, friend_requests, friends>>

\* The requests to the user of any status, newest first.
requests_of_any_status_for(current_user_id) ==
    LET n == Len(friend_requests)
        newest_first == [i \in 1..n |-> n + 1 - i]
        wanted == SelectSeq(newest_first,
                      LAMBDA i : friend_requests[i].toUserId = current_user_id)
    IN [k \in 1..Len(wanted) |->
          [id |-> wanted[k],
           fromUserId |-> friend_requests[wanted[k]].fromUserId,
           toUserId |-> friend_requests[wanted[k]].toUserId,
           status |-> friend_requests[wanted[k]].status]]

\* The pending requests to the user, newest first: ids are given out in the
\* order of creation.
pending_requests_for(current_user_id) ==
    LET n == Len(friend_requests)
        newest_first == [i \in 1..n |-> n + 1 - i]
        wanted == SelectSeq(newest_first,
                      LAMBDA i : /\ friend_requests[i].toUserId = current_user_id
                                 /\ friend_requests[i].status = "pending")
    IN [k \in 1..Len(wanted) |->
          [id |-> wanted[k],
           fromUserId |-> friend_requests[wanted[k]].fromUserId,
           toUserId |-> friend_requests[wanted[k]].toUserId,
           status |-> friend_requests[wanted[k]].status]]

get_friend_requests(w, uid) ==
    /\ Begins(w, "list_requests", uid, Unknown)
    /\ UNCHANGED <<outside_friends, users, friend_requests, friends>>

get_friend_requests_query(w) ==
    /\ workers[w].pc = "list_requests"
    /\ \/ ReturnsError(w, "Failed", StoreError)
       \/ ReturnsList(w, "Requests",
                      pending_requests_for(workers[w].current_user_id))
    /\ UNCHANGED <<outside_friends, users, friend_requests, friends>>

\* One step of a handler that only reads.
ReadStep(w) ==
    \/ \E uid \in Users, q \in Queries : search_users(w, uid, q)
    \/ search_check_query(w)
    \/ search_scan(w)
    \/ search_get_friendship(w)
    \/ search_get_pending(w)
    \/ \E uid \in Users : get_friend_requests(w, uid)
    \/ get_friend_requests_query(w)

(***************************************************************************)
(* joinGroupByCode (Membership Admission) and the join endpoint            *)
(***************************************************************************)

\* The invite codes callers send.
RawCodes ==
    {<<"A", "B", "1", "2", "C", "D">>,
     <<" ", "a", "b", "1", "2", "c", "d", " ">>,
     <<"c", "d", "1", "2", "a", "b">>,
     <<"Z", "Z", "9", "9", "Z", "Z">>,
     <<" ", "A", "B", "1", "2", " ">>,
     <<"A", "B", "1", "2", "C", "D", "1">>,
     <<>>}

JoinFree(w) == join_calls[w].pc = "idle"

\* The join call of worker w returns.
JoinReturns(w, kind, already) ==
    join_calls' = [join_calls EXCEPT ![w] =
                     [JoinIdle EXCEPT !.resp = kind, !.alreadyMember = already]]

\* The code in upper case, without trimming it.
NormalizeCodeUntrimmed(raw) == Upper(raw)

\* "Normalizes the code (uppercase, trimmed)"
NormalizeCode(raw) == Upper(Strip(raw))

\* The groups whose inviteCode equals the code.
GroupsWithCode(code) == {g \in GroupIds : groups[g].inviteCode = code}

\* "if duplicates exist, the first result is used"
FirstGroup(found) == CHOOSE g \in found : \A h \in found : g <= h

\* The membership test with a status no member record carries.
is_member_joined(group, user_id) ==
    /\ group.members[user_id].exists
    /\ group.members[user_id].status = "joined"

\* "already a member (status=active entry present)"
is_active_member(group, user_id) ==
    /\ group.members[user_id].exists
    /\ group.members[user_id].status = "active"

\* The batch of a join: the member record, the counter incremented by the
\* store, and the system message announcing the join.
admit(gs, g, user_id) ==
    [gs EXCEPT ![g].members[user_id] = MemberRecord("member"),
               ![g].memberCount = @ + 1,
               ![g].messages = Append(@, user_id)]

\* POST /api/join-group: answers success with the URL of the home page, the
\* group_code in it as it came; it reads and writes no document.
join_group_api(w, group_code) ==
    /\ JoinFree(w)
    /\ join_calls' = [join_calls EXCEPT ![w] =
                        [JoinIdle EXCEPT !.resp = "Redirect",
                                         !.code = group_code]]
    /\ UNCHANGED <<index_vars, auth_vars, friend_vars, groups>>

\* A call of joinGroupByCode arrives with the code as the caller typed it.
joinGroupByCode(w, user_id, raw) ==
    /\ JoinFree(w)
    /\ join_calls' = [join_calls EXCEPT ![w] =
                        [JoinIdle EXCEPT !.pc = "join_validate",
                                         !.user_id = user_id, !.code = raw]]
    /\ UNCHANGED <<index_vars, auth_vars, friend_vars, groups>>

\* Step 1: normalize the code and test its length.
join_validate(w) ==
    /\ join_calls[w].pc = "join_validate"
    /\ LET me == join_calls[w]
           code == NormalizeCode(me.code)
       IN IF Len(code) # CodeLength
          THEN JoinReturns(w, "InvalidCodeFormat", FALSE)
          ELSE join_calls' = [join_calls EXCEPT ![w] =
                                [me EXCEPT !.pc = "join_lookup",
                                           !.code = code]]
    /\ UNCHANGED <<index_vars, auth_vars, friend_vars, groups>>

\* Steps 2 and 3: the query for the group, and the membership test on the
\* group it returns.
join_lookup(w) ==
    /\ join_calls[w].pc = "join_lookup"
    /\ LET me == join_calls[w]
           found == GroupsWithCode(me.code)
       IN \/ JoinReturns(w, "Unavailable", FALSE)
          \/ /\ found = {}
             /\ JoinReturns(w, "InvalidCode", FALSE)
          \/ /\ found # {}
             /\ is_active_member(groups[FirstGroup(found)], me.user_id)
             /\ JoinReturns(w, "Success", TRUE)
          \/ /\ found # {}
             /\ ~is_active_member(groups[FirstGroup(found)], me.user_id)
             /\ join_calls' = [join_calls EXCEPT ![w] =
                                 [me EXCEPT !.pc = "join_commit",
                                            !.group_id = FirstGroup(found)]]
    /\ UNCHANGED <<index_vars, auth_vars, friend_vars, groups>>

\* Step 4: the batch, all of it or, when the store call raises, nothing.
join_commit(w) ==
    /\ join_calls[w].pc = "join_commit"
    /\ LET me == join_calls[w] IN
       \/ /\ groups' = admit(groups, me.group_id, me.user_id)
          /\ JoinReturns(w, "Success", FALSE)
       \/ /\ UNCHANGED groups
          /\ JoinReturns(w, "Unavailable", FALSE)
    /\ UNCHANGED <<index_vars, auth_vars, friend_vars>>

\* One step of the join call of worker w.
JoinStep(w) ==
    \/ \E group_code \in RawCodes : join_group_api(w, group_code)
    \/ \E user_id \in Users, raw \in RawCodes : joinGroupByCode(w, user_id, raw)
    \/ join_validate(w)
    \/ join_lookup(w)
    \/ join_commit(w)

\* Join calls of all workers interleave between their store calls.
GroupNext == \E w \in Workers : JoinStep(w)

GroupSpec == Init /\ [][GroupNext]_vars

\* One join call at a time.
GroupSeqNext == JoinStep("w1")

GroupSeqSpec == Init /\ [][GroupSeqNext]_vars

(***************************************************************************)
(* update_user_search_index                                                *)
(***************************************************************************)

\* The user_data callers pass: a full profile, one with name and username
\* cleared, one without email, one whose email has an empty local part.
UserDatas ==
    {[name |-> <<"A", "b", " ", "C", "d">>, email |-> <<"A", "b", "@", "x">>,
      username |-> <<"a", "b">>],
     [name |-> <<>>, email |-> <<"A", "b", "@", "x">>, username |-> <<>>],
     [name |-> <<"Z", "z">>, email |-> <<>>, username |-> <<"Z", "z">>],
     [name |-> <<>>, email |-> <<"@", "x">>, username |-> <<>>]}

\* The index of the first c in s, Len(s) + 1 when there is none.
FirstIndex(s, c) ==
    IF \E i \in 1..Len(s) : s[i] = c
    THEN CHOOSE i \in 1..Len(s) :
            s[i] = c /\ \A j \in 1..(i - 1) : s[j] # c
    ELSE Len(s) + 1

\* str.split(): the words between runs of white space.
RECURSIVE SplitWords(_)
SplitWords(s) ==
    LET t == StripLeft(s)
        n == FirstIndex(t, " ")
    IN IF t = <<>> THEN {}
       ELSE {SubSeq(t, 1, n - 1)} \cup SplitWords(SubSeq(t, n, Len(t)))

\* email.split('@')[0]
LocalPart(email) == SubSeq(email, 1, FirstIndex(email, "@") - 1)

\* list(set(filter(None, search_terms)))
search_terms(user_data) ==
    LET of_name == IF user_data.name # <<>>
                   THEN {Lower(user_data.name)}
                            \cup SplitWords(Lower(user_data.name))
                   ELSE {}
        of_email == IF user_data.email # <<>>
                    THEN {Lower(user_data.email),
                          Lower(LocalPart(user_data.email))}
                    ELSE {}
        of_username == IF user_data.username # <<>>
                       THEN {Lower(user_data.username)}
                       ELSE {}
    IN (of_name \cup of_email \cup of_username) \ {<<>>}

\* The document set() writes to user_search/{user_id}.
index_entry(user_id, user_data) ==
    [exists |-> TRUE, userId |-> user_id, name |-> user_data.name,
     email |-> user_data.email, username |-> user_data.username,
     searchTerms |-> search_terms(user_data)]

update_user_search_index(user_id, user_data) ==
    /\ index_call.pc = "idle"
    /\ index_call' = [pc |-> "index_set", user_id |-> user_id,
                      user_data |-> user_data]
    /\ UNCHANGED <<friend_vars, group_vars, auth_vars, user_search>>

\* db.collection('user_search').document(user_id).set(...): the document is
\* replaced; when the call raises, the exception is printed and the
\* function returns as it does after a write.
index_set ==
    /\ index_call.pc = "index_set"
    /\ \/ user_search' = [user_search EXCEPT ![index_call.user_id] =
                             index_entry(index_call.user_id,
                                         index_call.user_data)]
       \/ UNCHANGED user_search
    /\ index_call' = [index_call EXCEPT !.pc = "idle"]
    /\ UNCHANGED <<friend_vars, group_vars, auth_vars>>

IndexNext ==
    \/ \E user_id \in Users, user_data \in UserDatas :
         update_user_search_index(user_id, user_data)
    \/ index_set

IndexSpec == Init /\ [][IndexNext]_vars

(***************************************************************************)
(* login_required, verify_firebase_token, logout                           *)
(***************************************************************************)

\* The uid of the mock token of development mode.
DevUser == "dev-user-id"

\* The mock token of development mode.
MockToken == [uid |-> DevUser, email |-> "dev@example.com"]

\* The outcome of a verification that raises.
Raises == [uid |-> Unknown, email |-> "raises"]

\* The user Firebase issued the token to.
TokenUser(id_token) == IF id_token = "t1" THEN "u1" ELSE "u2"

\* The decoded token auth.verify_id_token() returns: the payload with uid
\* added.
Claims(id_token) == SessionUser(TokenUser(id_token))

\* The payloads jwt.decode() without verification can return for a token
\* that is a well-formed JWT: as Firebase issues it, the payload has no
\* claim uid; a payload can carry one.
Payloads(u) == {[uid |-> NoUid, email |-> TokenEmail(u)], SessionUser(u)}

\* verify_firebase_token(id_token): the outcomes of the call.  In
\* production auth.verify_id_token() returns the claims or raises.  In
\* development mode nothing raises: the token is decoded unverified; a
\* token that does not decode, or a missing jwt module, gives the mock
\* token; a token that production rejects is a forged JWT of any user or no
\* JWT at all.
verify_firebase_token(id_token, development) ==
    IF ~development
    THEN IF id_token \in {"t1", "t2"} THEN {Claims(id_token)} ELSE {Raises}
    ELSE IF id_token \in {"t1", "t2"}
         THEN Payloads(TokenUser(id_token)) \cup {MockToken}
         ELSE UNION {Payloads(u) : u \in Users} \cup {MockToken}

\* The token of the request as decorated_function finds it, with the cookie
\* asked before the session.
find_token_cookie_first(header, cookie) ==
    IF header # NoToken THEN [id_token |-> header, source |-> "header"]
    ELSE IF cookie # NoToken THEN [id_token |-> cookie, source |-> "cookie"]
    ELSE IF session.id_token # NoToken
         THEN [id_token |-> session.id_token, source |-> "session"]
         ELSE [id_token |-> NoToken, source |-> "none"]

\* The token of the request as decorated_function finds it, and where: the
\* Authorization header, then the session, then the cookie.
find_token(header, cookie) ==
    IF header # NoToken THEN [id_token |-> header, source |-> "header"]
    ELSE IF session.id_token # NoToken
         THEN [id_token |-> session.id_token, source |-> "session"]
         ELSE IF cookie # NoToken
              THEN [id_token |-> cookie, source |-> "cookie"]
              ELSE [id_token |-> NoToken, source |-> "none"]

\* The session of the request once the token was looked for: a token taken
\* from the cookie is stored in it.
session_with_cookie(found) ==
    IF found.source = "cookie"
    THEN [session EXCEPT !.id_token = found.id_token]
    ELSE session

\* The session of the request once the token is verified: the token is
\* stored, and session['user'] is created from the decoded token when the
\* session holds none.
session_verified(loaded, id_token, decoded_token) ==
    [id_token |-> id_token,
     user |-> IF loaded.user = NoDoc THEN decoded_token ELSE loaded.user]

\* The request in slot r goes on, or has returned, as next.
request_goes_on(r, next) ==
    auth_call' = [auth_call EXCEPT !.requests[r] = next]

\* A request to a view behind login_required arrives: its session is the
\* one the browser holds, and the token is looked for.  With no token the
\* request is redirected at once, its session unmodified.
login_required(r, header, cookie) ==
    /\ auth_call.requests[r].pc = "idle"
    /\ LET found == find_token(header, cookie) IN
       IF found.id_token = NoToken
       THEN request_goes_on(r, [NoRequest EXCEPT !.resp = "redirect"])
       ELSE request_goes_on(r, [NoRequest EXCEPT
                                   !.pc = "verify",
                                   !.session = session_with_cookie(found),
                                   !.source = found.source,
                                   !.id_token = found.id_token])
    /\ UNCHANGED <<friend_vars, group_vars, index_vars, session>>

\* verify_firebase_token(id_token) returns or raises.  When it raises,
\* id_token is popped from the session of the request if it is there, and
\* the request is redirected; a session that was modified goes back to the
\* browser with the response.  When it returns, the session is written and
\* the view starts under session['user']['uid'].
verify_token(r) ==
    /\ auth_call.requests[r].pc = "verify"
    /\ LET me == auth_call.requests[r] IN
       \E decoded_token \in
             verify_firebase_token(me.id_token, auth_call.development) :
          IF decoded_token = Raises
          THEN /\ request_goes_on(r, [NoRequest EXCEPT
                                         !.id_token = me.id_token,
                                         !.resp = "redirect"])
               /\ session' = IF me.session.id_token # NoToken
                             THEN [me.session EXCEPT !.id_token = NoToken]
                             ELSE session
          ELSE LET verified == session_verified(me.session, me.id_token,
                                                decoded_token)
               IN /\ request_goes_on(r, [me EXCEPT
                                            !.pc = "view",
                                            !.session = verified,
                                            !.verified = decoded_token.uid,
                                            !.acting = verified.user.uid])
                  /\ UNCHANGED session
    /\ UNCHANGED <<friend_vars, group_vars, index_vars>>

\* The view, which has waited in its store calls, answers; when it raises,
\* inside the try of decorated_function, id_token is popped and the request
\* is redirected.  The session of the request goes back to the browser.
run_view(r) ==
    /\ auth_call.requests[r].pc = "view"
    /\ LET me == auth_call.requests[r] IN
       \E view_raises \in BOOLEAN :
          /\ request_goes_on(r, [NoRequest EXCEPT
                                    !.id_token = me.id_token,
                                    !.view_runs = 1,
                                    !.resp = IF view_raises THEN "redirect"
                                             ELSE "view"])
          /\ session' = IF view_raises
                        THEN [me.session EXCEPT !.id_token = NoToken]
                        ELSE me.session
    /\ UNCHANGED <<friend_vars, group_vars, index_vars>>

\* session.clear()
logout ==
    /\ session' = NewSession
    /\ UNCHANGED <<friend_vars, group_vars, index_vars, auth_call>>

\* The requests of one browser, in production or in development mode.
AuthInit ==
    /\ users = [u \in Ids |->
                  IF u \in Users
                  THEN [exists |-> TRUE, email |-> TokenEmail(u)]
                  ELSE NoDoc]
    /\ friend_requests = <<>>
    /\ friends = [p \in Ids \X Ids |-> NoDoc]
    /\ workers = [w \in Workers |-> Idle]
    /\ groups = GroupsAtStart
    /\ join_calls = [w \in Workers |-> JoinIdle]
    /\ user_search = [u \in Users |-> NoDoc]
    /\ index_call = NoIndexCall
    /\ session = NewSession
    /\ \E development \in BOOLEAN :
         auth_call = [NoRequests EXCEPT !.development = development]

\* Requests of the browser overlap: a second request arrives while the
\* first waits for the verifier or in its view.
AuthNext ==
    \/ \E r \in Requests, header \in Tokens \cup {NoToken},
          cookie \in Tokens \cup {NoToken} :
         login_required(r, header, cookie)
    \/ \E r \in Requests : verify_token(r)
    \/ \E r \in Requests : run_view(r)
    \/ logout

AuthSpec == AuthInit /\ [][AuthNext]_vars

(***************************************************************************)
(* The specification                                                       *)
(***************************************************************************)

\* One step of worker w: a request enters a view, or the handler w runs
\* makes its next store call.
Step(w) ==
    \/ \E uid \in Users, to \in Ids \cup {MissingToUserId} :
         send_friend_request(w, uid, to)
    \/ send_check_existing(w)
    \/ send_get_friendship1(w)
    \/ send_get_friendship2(w)
    \/ send_get_to_user(w)
    \/ send_set(w)
    \/ \E uid \in Users, request_id \in RequestIds :
         accept_friend_request(w, uid, request_id)
    \/ accept_get_request(w)
    \/ accept_get_user_doc(w)
    \/ accept_commit(w)
    \/ \E uid \in Users, request_id \in RequestIds :
         decline_friend_request(w, uid, request_id)
    \/ decline_get_request(w)
    \/ decline_update(w)
    \/ \E uid \in Users, friend_id \in Ids : remove_friend(w, uid, friend_id)
    \/ remove_commit(w)

\* Handlers of all workers interleave between their store calls.
Next == \E w \in Workers : Step(w)

Spec == Init /\ [][Next]_vars

\* One handler at a time: every handler runs to completion before the
\* next request enters.
SeqNext == Step("w1")

SeqSpec == Init /\ [][SeqNext]_vars

\* Two calls of accept_friend_request on request 1, one per worker, from the
\* state a send from a to b leaves behind (with, or without, an older request
\* from b to a that a has declined).  Each worker takes one call, by any
\* user, and the calls interleave between their store calls.
AcceptTwiceInit ==
    /\ users = [u \in Ids |->
                  IF u \in Users
                  THEN [exists |-> TRUE, email |-> TokenEmail(u)]
                  ELSE NoDoc]
    /\ \E a \in Users, b \in Users :
         LET sent == request_data(SessionUser(a), b)
             declined == [request_data(SessionUser(b), a)
                             EXCEPT !.status = "declined"]
         IN friend_requests \in {<<sent>>, <<sent, declined>>}
    /\ friends = [p \in Ids \X Ids |-> NoDoc]
    /\ workers = [w \in Workers |-> Idle]
    /\ groups = GroupsAtStart
    /\ join_calls = [w \in Workers |-> JoinIdle]
    /\ user_search = [u \in Users |-> NoDoc]
    /\ index_call = NoIndexCall
    /\ session = NewSession
    /\ auth_call = NoRequests

AcceptTwiceNext ==
    \E w \in Workers :
        \/ /\ workers[w].resp = "none"
           /\ \E uid \in Users : accept_friend_request(w, uid, 1)
        \/ accept_get_request(w)
        \/ accept_get_user_doc(w)
        \/ accept_commit(w)

AcceptTwiceSpec == AcceptTwiceInit /\ [][AcceptTwiceNext]_vars

\* The store right after a remove_friend between a and b has succeeded:
\* the request from a to b that made them friends is accepted, the records
\* of the pair are gone (with, or without, an older request from b to a that
\* a has declined).  No request is sent from here on.
AfterRemoveInit ==
    /\ users = [u \in Ids |->
                  IF u \in Users
                  THEN [exists |-> TRUE, email |-> TokenEmail(u)]
                  ELSE NoDoc]
    /\ \E a \in Users, b \in Users :
         /\ a # b
         /\ LET accepted == [request_data(SessionUser(a), b)
                                EXCEPT !.status = "accepted"]
                declined == [request_data(SessionUser(b), a)
                                EXCEPT !.status = "declined"]
            IN friend_requests \in {<<accepted>>, <<declined, accepted>>}
         /\ workers = [w \in Workers |->
                         IF w = "w1"
                         THEN [Idle EXCEPT !.resp = "FriendRemoved"]
                         ELSE Idle]
    /\ friends = [p \in Ids \X Ids |-> NoDoc]
    /\ groups = GroupsAtStart
    /\ join_calls = [w \in Workers |-> JoinIdle]
    /\ user_search = [u \in Users |-> NoDoc]
    /\ index_call = NoIndexCall
    /\ session = NewSession
    /\ auth_call = NoRequests

AfterRemoveNext ==
    \/ \E uid \in Users, request_id \in RequestIds :
         accept_friend_request("w1", uid, request_id)
    \/ accept_get_request("w1")
    \/ accept_get_user_doc("w1")
    \/ accept_commit("w1")
    \/ \E uid \in Users, request_id \in RequestIds :
         decline_friend_request("w1", uid, request_id)
    \/ decline_get_request("w1")
    \/ decline_update("w1")
    \/ \E uid \in Users, friend_id \in Ids : remove_friend("w1", uid, friend_id)
    \/ remove_commit("w1")

AfterRemoveSpec == AfterRemoveInit /\ [][AfterRemoveNext]_vars

\* The handlers that only read, run by worker w1, while worker w2 runs the
\* handlers that write: the steps of w2 fall between the store calls of a
\* search or a list.
ReadNext == Step("w2") \/ ReadStep("w1")

ReadSpec == Init /\ [][ReadNext]_vars

\* The responses of accept, decline and remove that report success.
Applied == {"Accepted", "Declined", "FriendRemoved"}

\* A client calls accept, decline or remove and keeps the call to send it
\* again: worker w1 runs the call, worker w2 holds the same call with the
\* same acting user and argument.
retry_call(entry, uid, arg) ==
    /\ Free("w1")
    /\ Free("w2")
    /\ workers' = [w \in Workers |->
                     [Idle EXCEPT !.pc = entry, !.current_user_id = uid,
                                  !.arg = arg]]
    /\ UNCHANGED <<outside_friends, users, friend_requests, friends>>

\* The first call did not succeed: the client does not send it again.
retry_dropped ==
    /\ Free("w1")
    /\ ~Free("w2")
    /\ workers["w1"].resp \notin Applied
    /\ workers' = [workers EXCEPT !["w2"] = Idle]
    /\ UNCHANGED <<outside_friends, users, friend_requests, friends>>

\* One handler at a time; a call that succeeded may be sent a second time,
\* which runs after the first has returned.
RetryNext ==
    \/ /\ Free("w2") \/ ~Free("w1")
       /\ Step("w1")
    \/ \E uid \in Users, request_id \in RequestIds :
         retry_call("accept_request", uid, request_id)
    \/ \E uid \in Users, request_id \in RequestIds :
         retry_call("decline_request", uid, request_id)
    \/ \E uid \in Users, friend_id \in Ids :
         retry_call("remove_commit", uid, friend_id)
    \/ retry_dropped
    \/ /\ Free("w1")
       /\ ~Free("w2")
       /\ workers["w1"].resp \in Applied
       /\ Step("w2")

RetrySpec == Init /\ [][RetryNext]_vars

(***************************************************************************)
(* Properties                                                              *)
(***************************************************************************)

\* Worker w makes a step from the place pc of its handler.
StepsFrom(w, pc) == workers[w].pc = pc /\ workers'[w] # workers[w]

Pairs == Ids \X Ids

Friendship(a, b) == friends[<<a, b>>].exists /\ friends[<<b, a>>].exists

\* C1: in every reachable state a Friendship record exists under A keyed by
\* B if and only if one exists under B keyed by A, whatever the interleaving
\* of send, accept, decline and remove and whichever batch commits fail.
C1_FriendshipSymmetric ==
    \A a \in Ids, b \in Ids :
        friends[<<a, b>>].exists <=> friends[<<b, a>>].exists

\* C1 witness: two different users are friends, a remove has succeeded and
\* a store call has failed.
C1_Witness ==
    /\ \E a \in Users, b \in Users : a # b /\ Friendship(a, b)
    /\ workers["w1"].resp = "FriendRemoved"
    /\ workers["w2"].resp = "Failed"

\* C2: the commit of an accept either applies its three writes together (the
\* record under the recipient keyed by the sender, the record under the
\* sender keyed by the recipient, the request's status accepted) and nothing
\* else, or applies nothing; and no other step creates a Friendship record
\* or sets a status to accepted.
C2_AcceptAtomic ==
    [][/\ \A w \in Workers : StepsFrom(w, "accept_commit") =>
            LET me == workers[w]
                to == me.current_user_id
                from == me.request_data.fromUserId
            IN \/ /\ workers'[w].resp = "Accepted"
                  /\ friends'[<<to, from>>].exists
                  /\ friends'[<<to, from>>].userId = from
                  /\ friends'[<<from, to>>].exists
                  /\ friends'[<<from, to>>].userId = to
                  /\ \A p \in Pairs \ {<<to, from>>, <<from, to>>} :
                        friends'[p] = friends[p]
                  /\ Len(friend_requests') = Len(friend_requests)
                  /\ friend_requests'[me.arg] =
                       [friend_requests[me.arg] EXCEPT !.status = "accepted"]
                  /\ \A i \in 1..Len(friend_requests) \ {me.arg} :
                        friend_requests'[i] = friend_requests[i]
               \/ /\ workers'[w].resp = "Failed"
                  /\ friends' = friends
                  /\ friend_requests' = friend_requests
       /\ (\/ \E p \in Pairs : ~friends[p].exists /\ friends'[p].exists
           \/ \E i \in 1..Len(friend_requests) :
                /\ friend_requests[i].status # "accepted"
                /\ friend_requests'[i].status = "accepted")
          => \E w \in Workers : /\ StepsFrom(w, "accept_commit")
                                /\ workers'[w].resp = "Accepted"
      ]_vars

\* C2 witness: an accept has succeeded; its request is accepted and both
\* records of the pair are there.
C2_Witness ==
    \E w \in Workers, i \in 1..Len(friend_requests) :
        /\ workers[w].resp = "Accepted"
        /\ friend_requests[i].status = "accepted"
        /\ friend_requests[i].fromUserId # friend_requests[i].toUserId
        /\ Friendship(friend_requests[i].fromUserId,
                      friend_requests[i].toUserId)

\* C3: when remove_friend(A, B) returns success neither the record under A
\* keyed by B nor the one under B keyed by A exists; a commit that fails
\* deletes nothing; and no step deletes one side and leaves the other.
C3_RemoveAtomic ==
    [][/\ \A w \in Workers : StepsFrom(w, "remove_commit") =>
            LET a == workers[w].current_user_id
                b == workers[w].arg
            IN \/ /\ workers'[w].resp = "FriendRemoved"
                  /\ ~friends'[<<a, b>>].exists
                  /\ ~friends'[<<b, a>>].exists
               \/ /\ workers'[w].resp = "Failed"
                  /\ friends' = friends
       /\ \A a \in Ids, b \in Ids :
            (friends[<<a, b>>].exists /\ ~friends'[<<a, b>>].exists)
                => ~friends'[<<b, a>>].exists
      ]_vars

\* C3 witness: a remove has succeeded on a pair whose request was accepted,
\* and the pair's records are gone.
C3_Witness ==
    \E w \in Workers, i \in 1..Len(friend_requests) :
        /\ workers[w].resp = "FriendRemoved"
        /\ friend_requests[i].status = "accepted"
        /\ friend_requests[i].fromUserId # friend_requests[i].toUserId
        /\ ~friends[<<friend_requests[i].fromUserId,
                      friend_requests[i].toUserId>>].exists
        /\ ~friends[<<friend_requests[i].toUserId,
                      friend_requests[i].fromUserId>>].exists

\* C4: at most one pending request exists for any ordered pair
\* (fromUserId, toUserId) in every reachable state, also when two sends of
\* the same ordered pair run at the same time.
C4_AtMostOnePending ==
    \A a \in Ids, b \in Ids : Cardinality(PendingRequests(a, b)) <= 1

\* C5: run without another handler in between, a send whose duplicate query
\* answers while a pending request of the ordered pair exists returns
\* DuplicateRequest; that step, like a query that raises, leaves
\* friend_requests as it is; so every ordered pair has at most one pending
\* request in every state.
C5_DuplicateRequest ==
    /\ [](\A a \in Ids, b \in Ids : Cardinality(PendingRequests(a, b)) <= 1)
    /\ [][\A w \in Workers : StepsFrom(w, "send_existing") =>
            LET me == workers[w] IN
            /\ friend_requests' = friend_requests
            /\ PendingRequests(me.current_user_id, me.arg) # {} =>
                 /\ workers'[w].pc = "idle"
                 /\ workers'[w].resp \in {"DuplicateRequest", "Failed"}
         ]_vars

\* C5 witness: a second send of the pair was answered DuplicateRequest and
\* the pair has exactly one pending request.
C5_Witness ==
    \E a \in Users, b \in Users :
        /\ a # b
        /\ workers["w1"].resp = "DuplicateRequest"
        /\ Cardinality(PendingRequests(a, b)) = 1
        /\ Len(friend_requests) = 1

\* C6: an accept by a user other than the request's toUserId returns
\* Forbidden (or the failure of the read that raised), and that step changes
\* neither a request nor a Friendship record.
C6_AcceptForbidden ==
    [][\A w \in Workers : StepsFrom(w, "accept_request") =>
         LET me == workers[w]
             request_doc == RequestDoc(me.arg)
         IN (request_doc.exists /\ request_doc.toUserId # me.current_user_id)
              => /\ workers'[w].pc = "idle"
                 /\ workers'[w].resp \in {"Forbidden", "Failed"}
                 /\ friend_requests' = friend_requests
                 /\ friends' = friends
      ]_vars

\* C6 witness: an accept was answered Forbidden while a request is pending
\* and nobody is a friend of anybody.
C6_Witness ==
    /\ \E w \in Workers : workers[w].resp = "Forbidden"
    /\ \E i \in 1..Len(friend_requests) : friend_requests[i].status = "pending"
    /\ \A p \in Pairs : ~friends[p].exists

\* C7: an accept of a request whose status is not pending is answered
\* AlreadyResolved (or with the failure of a read that raised) and changes
\* nothing: the request keeps its status and no Friendship record is written.
C7_AcceptAlreadyResolved ==
    [][\A w \in Workers :
         /\ StepsFrom(w, "accept_request") =>
              LET me == workers[w]
                  request_doc == RequestDoc(me.arg)
              IN (/\ request_doc.exists
                  /\ request_doc.toUserId = me.current_user_id
                  /\ request_doc.status # "pending")
                   => /\ workers'[w].pc = "idle"
                      /\ workers'[w].resp \in {"AlreadyResolved", "Failed"}
         /\ StepsFrom(w, "accept_commit") =>
              (friend_requests[workers[w].arg].status # "pending"
                 => /\ friend_requests' = friend_requests
                    /\ friends' = friends)
      ]_vars

\* C8: accepted and declined are terminal: no step changes the status of a
\* request that is accepted or declined.
C8_TerminalStatus ==
    [][\A i \in 1..Len(friend_requests) :
         friend_requests[i].status \in {"accepted", "declined"}
            => friend_requests'[i].status = friend_requests[i].status
      ]_vars

\* C9: a send from A to B whose two friendship reads find both records of
\* the pair is answered AlreadyFriends (or with the failure of a read that
\* raised) and goes no further.
C9_AlreadyFriends ==
    [][\A w \in Workers : StepsFrom(w, "send_friendship2") =>
         LET me == workers[w] IN
         (/\ me.friendship1.exists
          /\ friends[<<me.arg, me.current_user_id>>].exists)
            => /\ workers'[w].pc = "idle"
               /\ workers'[w].resp \in {"AlreadyFriends", "Failed"}
      ]_vars

\* C10: a send from A to B creates a request only in a state with no pending
\* request from A to B, none from B to A, and no Friendship between them.
C10_SendOnlyWhenClear ==
    [][\A w \in Workers :
         (StepsFrom(w, "send_set") /\ workers'[w].resp = "RequestSent") =>
            LET a == workers[w].current_user_id
                b == workers[w].arg
            IN /\ PendingRequests(a, b) = {}
               /\ PendingRequests(b, a) = {}
               /\ ~friends[<<a, b>>].exists
               /\ ~friends[<<b, a>>].exists
      ]_vars

\* C11: two accepts of the same pending request, one per worker and
\* interleaved in any order of their reads and commits, leave the store as
\* one accept does: as soon as one of them has committed, the request is
\* accepted and exactly the two records of its pair exist, the record under
\* the recipient naming the sender and the record under the sender naming the
\* recipient; until then nothing has changed; no other request and no other
\* friends document changes at any time.
C11_ConcurrentAcceptsAsOne ==
    LET request == friend_requests[1]
        from == request.fromUserId
        to == request.toUserId
        accepted == \E w \in Workers : workers[w].resp = "Accepted"
    IN /\ request = [request_data(SessionUser(from), to)
                        EXCEPT !.status = IF accepted THEN "accepted"
                                          ELSE "pending"]
       /\ Len(friend_requests) = 2 =>
            friend_requests[2] = [request_data(SessionUser(to), from)
                                     EXCEPT !.status = "declined"]
       /\ \A p \in Pairs \ {<<to, from>>, <<from, to>>} : friends[p] = NoDoc
       /\ ~accepted => friends[<<to, from>>] = NoDoc /\ friends[<<from, to>>] = NoDoc
       /\ accepted =>
            /\ friends[<<to, from>>] =
                 [exists |-> TRUE, userId |-> from,
                  email |-> TokenEmail(from), status |-> "active"]
            /\ friends[<<from, to>>] =
                 [exists |-> TRUE, userId |-> to,
                  email |-> users[to].email, status |-> "active"]

\* C11 witness: both accepts of a request between two different users have
\* committed.
C11_Witness ==
    /\ \A w \in Workers : workers[w].resp = "Accepted"
    /\ friend_requests[1].status = "accepted"
    /\ friend_requests[1].fromUserId # friend_requests[1].toUserId
    /\ Friendship(friend_requests[1].fromUserId, friend_requests[1].toUserId)

\* C12: a decline by a user other than the request's toUserId returns
\* Forbidden (or the failure of the read that raised) and changes neither a
\* request nor a Friendship record; only the recipient reaches the update;
\* an update that succeeds sets the status of that request to declined,
\* changes no other request and creates or deletes no Friendship record; an
\* update that raises changes nothing.
C12_DeclineAuthorized ==
    [][\A w \in Workers :
         /\ StepsFrom(w, "decline_request") =>
              LET me == workers[w]
                  request_doc == RequestDoc(me.arg)
              IN /\ friend_requests' = friend_requests
                 /\ friends' = friends
                 /\ (request_doc.exists
                       /\ request_doc.toUserId # me.current_user_id)
                      => /\ workers'[w].pc = "idle"
                         /\ workers'[w].resp \in {"Forbidden", "Failed"}
         /\ StepsFrom(w, "decline_update") =>
              LET me == workers[w] IN
              /\ friend_requests[me.arg].toUserId = me.current_user_id
              /\ friends' = friends
              /\ \/ /\ workers'[w].resp = "Declined"
                    /\ friend_requests' =
                         [friend_requests EXCEPT ![me.arg] =
                            [friend_requests[me.arg]
                                EXCEPT !.status = "declined"]]
                 \/ /\ workers'[w].resp = "Failed"
                    /\ friend_requests' = friend_requests
      ]_vars

\* C12 witness: the recipient has declined a request while another call was
\* answered Forbidden; the request is declined and nobody is a friend of
\* anybody.
C12_Witness ==
    /\ workers["w1"].resp = "Declined"
    /\ workers["w2"].resp = "Forbidden"
    /\ \E i \in 1..Len(friend_requests) :
          /\ friend_requests[i].status = "declined"
          /\ friend_requests[i].fromUserId # friend_requests[i].toUserId
    /\ \A p \in Pairs : ~friends[p].exists

\* C13: a second application of accept, decline or remove, with the same
\* acting user and the same argument and run after the first application
\* has succeeded, changes no request and no Friendship record at any of its
\* steps, and is answered as the first was (or with the failure of a store
\* call that raised).
C13_RetryIdempotent ==
    [][(/\ workers["w2"].pc # "idle"
        /\ workers'["w2"] # workers["w2"]
        /\ workers["w1"].resp \in Applied)
         => /\ friend_requests' = friend_requests
            /\ friends' = friends
            /\ workers'["w2"].pc = "idle" =>
                 workers'["w2"].resp \in {workers["w1"].resp, "Failed"}
      ]_vars

\* C13 witness: an accept between two different users was applied a second
\* time, and both applications succeeded.
C13_Witness ==
    /\ workers["w1"].resp = "Accepted"
    /\ workers["w2"].resp = "Accepted"
    /\ \E i \in 1..Len(friend_requests) :
          /\ friend_requests[i].status = "accepted"
          /\ friend_requests[i].fromUserId # friend_requests[i].toUserId
          /\ Friendship(friend_requests[i].fromUserId,
                        friend_requests[i].toUserId)

\* C13, remove: a remove of a pair whose request was accepted was applied a
\* second time with success, and the records of the pair are gone.
C13_RemoveTwice ==
    /\ workers["w1"].resp = "FriendRemoved"
    /\ workers["w2"].resp = "FriendRemoved"
    /\ \E i \in 1..Len(friend_requests) :
          /\ friend_requests[i].status = "accepted"
          /\ ~friends[<<friend_requests[i].fromUserId,
                        friend_requests[i].toUserId>>].exists

\* C14: a send to a user without a profile document is answered UserNotFound
\* (or with the failure of a store call that raised) and creates no request,
\* so no request names a recipient without a profile; a send that succeeds
\* appends exactly one request, from the sender to the recipient with status
\* pending, and writes no other document; no other step creates a request.
C14_SendUserNotFound ==
    /\ [](\A i \in 1..Len(friend_requests) :
            users[friend_requests[i].toUserId].exists)
    /\ [][/\ \A w \in Workers :
               (w \in SendsInFlight /\ workers'[w] # workers[w]) =>
                  LET me == workers[w] IN
                  /\ (~users[me.arg].exists /\ workers'[w].pc = "idle") =>
                        /\ workers'[w].resp \in {"UserNotFound", "Failed"}
                        /\ friend_requests' = friend_requests
                  /\ workers'[w].resp = "RequestSent" =>
                        /\ friend_requests' = Append(friend_requests,
                              [exists |-> TRUE,
                               fromUserId |-> me.current_user_id,
                               fromUserEmail |-> TokenEmail(me.current_user_id),
                               toUserId |-> me.arg,
                               status |-> "pending"])
                  /\ friends' = friends
                  /\ users' = users
          /\ friend_requests' # friend_requests =>
               \/ Len(friend_requests') = Len(friend_requests)
               \/ \E w \in Workers : /\ StepsFrom(w, "send_set")
                                     /\ workers'[w].resp = "RequestSent"
         ]_vars

\* C14 witness: a send to the id without a profile was answered UserNotFound,
\* a send between two users has succeeded, and there is exactly one request.
C14_Witness ==
    /\ workers["w1"].resp = "UserNotFound"
    /\ workers["w2"].resp = "RequestSent"
    /\ Len(friend_requests) = 1
    /\ friend_requests[1].status = "pending"

\* A step of the join call of worker w from the place pc.
JoinStepsFrom(w, pc) ==
    join_calls[w].pc = pc /\ join_calls'[w] # join_calls[w]

\* The users with an entry of status active in the members map of a group.
ActiveIn(group) ==
    {u \in Users \cup {Owner} :
        group.members[u].exists /\ group.members[u].status = "active"}

ActiveMembers(g) == ActiveIn(groups[g])

\* How many join messages of group g name user u.
JoinsOf(g, u) ==
    Cardinality({i \in 1..Len(groups[g].messages) : groups[g].messages[i] = u})

\* C15: with one join call at a time, calls of a user with a code of a group
\* increment its memberCount exactly once: the call that admits the user adds
\* 1 to memberCount and makes the user an active member; every later call of
\* that user for that group is answered alreadyMember = true (or Unavailable
\* when the query raises) and changes no group; so no user is admitted to a
\* group twice and memberCount counts the creator and the admissions.
C15_JoinTwiceCountsOnce ==
    /\ [](\A g \in GroupIds :
            /\ \A u \in Users : JoinsOf(g, u) <= 1
            /\ groups[g].memberCount = 1 + Len(groups[g].messages))
    /\ [][\A w \in Workers :
            /\ JoinStepsFrom(w, "join_lookup") =>
                 LET me == join_calls[w] IN
                 /\ groups' = groups
                 /\ \A g \in GroupIds :
                      (groups[g].inviteCode = me.code /\ me.user_id \in ActiveMembers(g))
                        => /\ join_calls'[w].pc = "idle"
                           /\ \/ /\ join_calls'[w].resp = "Success"
                                 /\ join_calls'[w].alreadyMember
                              \/ join_calls'[w].resp = "Unavailable"
            /\ (JoinStepsFrom(w, "join_commit") /\ join_calls'[w].resp = "Success") =>
                 LET me == join_calls[w]
                     g == me.group_id
                 IN /\ ~join_calls'[w].alreadyMember
                    /\ groups[g].inviteCode = me.code
                    /\ groups'[g].memberCount = groups[g].memberCount + 1
                    /\ ActiveIn(groups'[g]) = ActiveMembers(g) \cup {me.user_id}
                    /\ me.user_id \notin ActiveMembers(g)
                    /\ \A h \in GroupIds \ {g} : groups'[h] = groups[h]
         ]_vars

\* C15 witness: a user has joined group 1 and their second call with its code
\* was answered alreadyMember = true; memberCount is 2.
C15_Witness ==
    /\ join_calls["w1"].resp = "Success"
    /\ join_calls["w1"].alreadyMember
    /\ groups[1].memberCount = 2
    /\ Len(groups[1].messages) = 1
    /\ Cardinality(ActiveMembers(1)) = 2

\* C16: in every reachable state the memberCount of every group equals the
\* number of entries of its members map with status active, also while join
\* calls run at the same time and after a batch that failed.
C16_MemberCountMatches ==
    \A g \in GroupIds : groups[g].memberCount = Cardinality(ActiveMembers(g))

\* C17: a join call whose code, trimmed and in upper case, does not have
\* length 6 is answered InvalidCodeFormat; a join call whose normalized code
\* no group has as inviteCode is answered InvalidCode (or Unavailable when the
\* query raises); neither step changes a group, and neither call is answered
\* success.
C17_InvalidCode ==
    [][\A w \in Workers :
         /\ JoinStepsFrom(w, "join_validate") =>
              /\ groups' = groups
              /\ Len(Upper(Strip(join_calls[w].code))) # 6 =>
                   /\ join_calls'[w].pc = "idle"
                   /\ join_calls'[w].resp = "InvalidCodeFormat"
              /\ Len(Upper(Strip(join_calls[w].code))) = 6 =>
                   /\ join_calls'[w].pc = "join_lookup"
                   /\ join_calls'[w].code = Upper(Strip(join_calls[w].code))
         /\ JoinStepsFrom(w, "join_lookup") =>
              /\ groups' = groups
              /\ (\A g \in GroupIds : groups[g].inviteCode # join_calls[w].code)
                   => /\ join_calls'[w].pc = "idle"
                      /\ join_calls'[w].resp \in {"InvalidCode", "Unavailable"}
      ]_vars

\* C17 witness: one call was answered InvalidCodeFormat and another
\* InvalidCode, while a user has joined group 1.
C17_Witness ==
    /\ join_calls["w1"].resp = "InvalidCodeFormat"
    /\ join_calls["w2"].resp = "InvalidCode"
    /\ groups[1].memberCount = 2

\* C18: no response of search, send, list, accept, decline or remove carries
\* the raw error string of the store call that failed: every such failure is
\* answered with a fixed kind and message only.
C18_NoRawStoreError ==
    \A w \in Workers : workers[w].details # StoreError

\* C19: a search whose query, trimmed, has fewer than 2 characters returns
\* the empty list of users at once, whatever users, friend_requests and
\* friends hold, and changes none of them.
C19_ShortQueryEmpty ==
    [][\A w \in Workers :
         (StepsFrom(w, "search_query") /\ Len(Strip(workers[w].arg)) < 2) =>
            /\ workers'[w].pc = "idle"
            /\ workers'[w].resp = "Users"
            /\ workers'[w].result = <<>>
            /\ UNCHANGED <<users, friend_requests, friends>>
      ]_vars

\* C19 witness: a search was answered with the empty list while a user who
\* matches every query of one letter has a pending request and a friend.
C19_Witness ==
    /\ workers["w1"].resp = "Users"
    /\ workers["w1"].result = <<>>
    /\ \E a \in Users, b \in Users : a # b /\ Friendship(a, b)
    /\ \E i \in 1..Len(friend_requests) : friend_requests[i].status = "pending"

\* C20: for every user a search returns, isFriend is true exactly when a
\* Friendship record exists under the requester keyed by that user when the
\* search reads it, and requestPending is true exactly when a pending
\* request from the requester to that user exists when the search queries
\* it; the requester is not among the users returned.
C20_SearchFlagsExact ==
    [][\A w \in Workers :
         LET requester == workers[w].current_user_id IN
         /\ StepsFrom(w, "search_friendship") =>
              (workers'[w].friendship1.exists <=>
                 friends[<<requester, search_user(workers[w])>>].exists)
         /\ StepsFrom(w, "search_pending") =>
              LET listed == workers'[w].result
                  entry == listed[Len(listed)]
              IN /\ entry.userId = search_user(workers[w])
                 /\ entry.userId # requester
                 /\ entry.isFriend = workers[w].friendship1.exists
                 /\ entry.requestPending <=>
                      PendingRequests(requester, entry.userId) # {}
      ]_vars

\* C23: after update_user_search_index(user_id, user_data) has returned, the
\* entry of user_id is the one derived from the given user_data alone: its
\* searchTerms is exactly the set of the lowercased full name, name words,
\* email, email local part and username that are not empty, and its fields
\* are those given, whatever the entry held before.
C23_ReindexReplaces ==
    (index_call.pc = "idle" /\ index_call.user_id \in Users) =>
        LET given == index_call.user_data
            entry == user_search[index_call.user_id]
        IN /\ entry.exists
           /\ entry.searchTerms = search_terms(given)
           /\ entry.name = given.name
           /\ entry.email = given.email
           /\ entry.username = given.username

\* C21: a search changes no document of the store: every step of
\* search_users, from the call to the response, leaves users,
\* friend_requests, the friends sub-collections and user_search as they
\* were, for every query and every requester.
C21_SearchReadsOnly ==
    [][\A w \in Workers :
         (\/ workers[w].pc = "idle" /\ workers'[w].pc = "search_query"
          \/ StepsFrom(w, "search_query")
          \/ StepsFrom(w, "search_scan")
          \/ StepsFrom(w, "search_friendship")
          \/ StepsFrom(w, "search_pending")) =>
            UNCHANGED <<users, friend_requests, friends, user_search>>
      ]_vars

\* C21 witness: a search has returned a user while the store holds a
\* friendship and a pending request.
C21_Witness ==
    /\ workers["w1"].resp = "Users"
    /\ workers["w1"].result # <<>>
    /\ \E a \in Users, b \in Users : a # b /\ Friendship(a, b)
    /\ \E i \in 1..Len(friend_requests) : friend_requests[i].status = "pending"

\* C22: the list of friend requests returned to a user holds exactly the
\* requests whose toUserId is that user and whose status is pending, each
\* once, newest first; accepted and declined requests and requests to other
\* users are not in it.
C22_ListsPendingToUser ==
    [][\A w \in Workers :
         (StepsFrom(w, "list_requests") /\ workers'[w].resp = "Requests") =>
            LET userId == workers[w].current_user_id
                listed == workers'[w].result
            IN /\ \A k \in 1..Len(listed) :
                    /\ listed[k].id \in 1..Len(friend_requests)
                    /\ friend_requests[listed[k].id].toUserId = userId
                    /\ friend_requests[listed[k].id].status = "pending"
                    /\ listed[k].toUserId = userId
                    /\ listed[k].status = "pending"
                    /\ listed[k].fromUserId =
                          friend_requests[listed[k].id].fromUserId
               /\ \A i \in 1..Len(friend_requests) :
                    (friend_requests[i].toUserId = userId
                        /\ friend_requests[i].status = "pending")
                    => \E k \in 1..Len(listed) : listed[k].id = i
               /\ \A k \in 1..Len(listed), l \in 1..Len(listed) :
                    k < l => listed[k].id > listed[l].id
      ]_vars

\* C22 witness: a list with a request in it was returned while another
\* request, accepted, declined or addressed to someone else, was left out.
C22_Witness ==
    /\ workers["w1"].resp = "Requests"
    /\ Len(workers["w1"].result) = 1
    /\ \E i \in 1..Len(friend_requests) :
         /\ i # workers["w1"].result[1].id
         /\ \/ friend_requests[i].status # "pending"
            \/ friend_requests[i].toUserId # workers["w1"].current_user_id

\* A list of two pending requests was returned.
C22_TwoListed ==
    /\ workers["w1"].resp = "Requests"
    /\ Len(workers["w1"].result) = 2

\* C24: whenever a view behind login_required runs, the identity it acts
\* under (session['user']['uid']) is the uid of the token verified for that
\* same request, whatever requests the session has seen before.
C24_ActsAsVerifiedUser ==
    \A r \in Requests :
        auth_call.requests[r].pc = "view" =>
            auth_call.requests[r].acting = auth_call.requests[r].verified

\* C25: a request runs the view at most once, and only when a token was
\* found, header first, then session, then cookie, and verified; with no
\* token the view does not run and the answer is the redirect to the login
\* page; with a token that fails verification the view does not run, the
\* answer is the redirect, and the session of the request holds no id_token
\* afterwards.
C25_ViewOnlyAfterVerification ==
    [][\A r \in Requests :
         LET me == auth_call.requests[r]
             next == auth_call'.requests[r]
         IN next # me =>
            /\ me.pc = "idle" =>
                 /\ next.view_runs = 0
                 /\ next.pc \in {"idle", "verify"}
                 /\ next.pc = "idle" =>
                      /\ next.id_token = NoToken
                      /\ session.id_token = NoToken
                      /\ next.resp = "redirect"
                      /\ session' = session
                 /\ next.pc = "verify" =>
                      /\ next.id_token # NoToken
                      /\ next.source \in {"header", "session", "cookie"}
                      /\ next.source = "session" =>
                           next.id_token = session.id_token
                      /\ next.source = "cookie" =>
                           session.id_token = NoToken
            /\ me.pc = "verify" =>
                 \/ /\ next.pc = "view"
                    /\ next.view_runs = 0
                    /\ me.id_token \in {"t1", "t2"} \/ auth_call.development
                    /\ ~auth_call.development =>
                         next.verified =
                            (IF me.id_token = "t1" THEN "u1" ELSE "u2")
                 \/ /\ next.pc = "idle"
                    /\ next.view_runs = 0
                    /\ next.resp = "redirect"
                    /\ me.id_token = "bad"
                    /\ me.session.id_token = NoToken
                         \/ session'.id_token = NoToken
            /\ me.pc = "view" =>
                 /\ next.pc = "idle"
                 /\ next.view_runs = 1
                 /\ next.resp \in {"view", "redirect"}
      ]_vars

\* C25 witness: a request whose token failed verification was redirected,
\* on a session that had run a view before and holds no id_token now.
C25_Witness ==
    /\ auth_call.requests["r1"].resp = "redirect"
    /\ auth_call.requests["r1"].view_runs = 0
    /\ auth_call.requests["r1"].id_token = "bad"
    /\ auth_call.requests["r2"].view_runs = 1
    /\ session.user # NoDoc
    /\ session.id_token = NoToken

\* C26: in every reachable state a Friendship between A and B exists only
\* if some request between A and B, in either direction, has the status
\* accepted.
C26_FriendshipHasAcceptedRequest ==
    \A a \in Ids, b \in Ids :
        Friendship(a, b) =>
            \E i \in 1..Len(friend_requests) :
                /\ friend_requests[i].status = "accepted"
                /\ \/ /\ friend_requests[i].fromUserId = a
                      /\ friend_requests[i].toUserId = b
                   \/ /\ friend_requests[i].fromUserId = b
                      /\ friend_requests[i].toUserId = a

\* C27: once a remove has succeeded, and as long as no new request is
\* sent, no operation on the requests that exist brings a Friendship record
\* back.
C27_NoFriendshipFromOldRequest ==
    \A p \in Pairs : ~friends[p].exists

\* C28: no request has fromUserId equal to toUserId, and no user has a
\* Friendship record keyed by their own id.
C28_NoSelfFriendship ==
    /\ \A i \in 1..Len(friend_requests) :
         friend_requests[i].fromUserId # friend_requests[i].toUserId
    /\ \A a \in Ids : ~friends[<<a, a>>].exists

\* C29: the commit of remove_friend(userId, friendId) changes no request, no
\* profile and no Friendship record other than the two of the pair; when no
\* record of the pair exists it changes nothing and answers as a removal
\* does (or with the failure of the commit that raised).
C29_RemoveTouchesPairOnly ==
    [][\A w \in Workers : StepsFrom(w, "remove_commit") =>
         LET userId == workers[w].current_user_id
             friendId == workers[w].arg
         IN /\ friend_requests' = friend_requests
            /\ users' = users
            /\ \A p \in Pairs \ {<<userId, friendId>>, <<friendId, userId>>} :
                 friends'[p] = friends[p]
            /\ workers'[w].resp \in {"FriendRemoved", "Failed"}
            /\ (~friends[<<userId, friendId>>].exists
                    /\ ~friends[<<friendId, userId>>].exists)
                 => friends' = friends
      ]_vars

\* C29 witness: a remove has succeeded while a Friendship record of another
\* pair exists and a request between two users who are not friends is
\* pending.
C29_Witness ==
    /\ \E w \in Workers : workers[w].resp = "FriendRemoved"
    /\ \E a \in Users : friends[<<a, a>>].exists
    /\ \E i \in 1..Len(friend_requests) :
         /\ friend_requests[i].status = "pending"
         /\ friend_requests[i].fromUserId # friend_requests[i].toUserId
         /\ ~Friendship(friend_requests[i].fromUserId,
                        friend_requests[i].toUserId)

====
